---- MODULE Spec2Model ----
(***************************************************************************)
(* PLM BOM Import Tool (plm_bom_import_tool.py).                           *)
(*                                                                         *)
(* Two whitelisted handlers work on an import-request document that has a  *)
(* file attached: import_items creates one Item per data row, and          *)
(* import_bom_creator rebuilds a BOM tree from a levelled row sequence     *)
(* with a level stack and saves it as a BOM Creator.                       *)
(*                                                                         *)
(* Cells are strings; None (an absent cell) is the string NoneVal.  The    *)
(* sequence <<>> stands for Python's None / "" where the code stores a     *)
(* row number or nothing (item_row_no, parent_row_no), and <<n>> for the   *)
(* number n.  Sequences are 1-based, so rows[1] is the header row and a    *)
(* data row's position in rows is the row_idx the code logs.               *)
(***************************************************************************)
EXTENDS Integers, Sequences, FiniteSets, TLC

\* ---------------------------------------------------------------- bounds
MaxRows == 4        \* data rows of a well-formed BOM file
MaxLevel == 3       \* largest structure level of a well-formed BOM file
MaxSmallRows == 2   \* data rows of a file with malformed cells
MaxRev == 2         \* largest -REVk suffix among the stored BOM Creators
MaxItemRows == 2    \* data rows of an item file
MaxRuns == 2        \* consecutive runs of import_items on the same file
MaxRaceRows == 2    \* data rows of a BOM file when two requests run side by side
MaxLiveRows == 3    \* data rows of a BOM file when every request runs to its end

Procs == {1, 2}     \* import requests (each with its own request document)

NoneVal == "<None>"

\* A spreadsheet cell that holds the number n, not text.  Only quantity
\* columns have such cells here.
NumCell(n) == "#" \o ToString(n)
QtyNumbers == (0 - 3)..5
is_number(value) == \E n \in QtyNumbers : value = NumCell(n)
number_of(value) == CHOOSE n \in QtyNumbers : value = NumCell(n)

\* ------------------------------------------------------ small Python helpers
\* cstr(value): None becomes "", a string stays.
cstr(value) == IF value = NoneVal THEN "" ELSE value

\* str.strip() on the cell strings the model uses.
Strip(s) ==
    CASE s = " " -> ""
      [] s = " A" -> "A"
      [] OTHER -> s

\* cint(value): the integer a cell spells, 0 when it spells none.
LevelRange == (0 - 1) .. (MaxLevel + 1)
cint(value) ==
    IF \E n \in LevelRange : ToString(n) = value
    THEN CHOOSE n \in LevelRange : ToString(n) = value
    ELSE 0

\* any(row): some cell is truthy (a non-empty string, a number other than 0).
any(row) == \E k \in 1..Len(row) : row[k] \notin {"", NoneVal, NumCell(0)}

\* frappe.scrub on the header texts the model uses: lower case, "_" for " ".
scrub(txt) ==
    CASE txt = "Level" -> "level"
      [] txt = "Number" -> "number"
      [] txt = "Part Type" -> "part_type"
      [] txt = "Structure Level" -> "structure_level"
      [] txt = "Item Code" -> "item_code"
      [] txt = "Remarks" -> "remarks"
      [] txt = "Qty" -> "qty"
      [] txt = "UOM" -> "uom"
      [] OTHER -> txt

aliases ==
    [k \in {"number", "item_code", "code"} |-> "item_code"] @@
    [k \in {"name", "item_name"} |-> "item_name"] @@
    [k \in {"description"} |-> "description"] @@
    [k \in {"gst_hsn_code", "gst_hsn", "hsn_code"} |-> "gst_hsn_code"] @@
    [k \in {"material"} |-> "custom_material"] @@
    [k \in {"length"} |-> "custom_length"] @@
    [k \in {"width"} |-> "custom_width"] @@
    [k \in {"height"} |-> "custom_height"] @@
    [k \in {"diameter"} |-> "custom_diameter"] @@
    [k \in {"thickness"} |-> "custom_thickness"] @@
    [k \in {"weight"} |-> "custom_weight"] @@
    [k \in {"part_type", "parttype", "item_group"} |-> "item_group"] @@
    [k \in {"uom", "stock_uom"} |-> "stock_uom"] @@
    [k \in {"structure_level", "level", "structurelevel"} |-> "structure_level"] @@
    [k \in {"qty", "quantity"} |-> "qty"]

\* build_header_map(headers): column position -> canonical field name.
build_header_map(headers) ==
    [idx \in {k \in 1..Len(headers) : scrub(cstr(headers[k])) \in DOMAIN aliases}
        |-> aliases[scrub(cstr(headers[idx]))]]

header_values(header_map) == {header_map[idx] : idx \in DOMAIN header_map}

\* extract_row_data(row, header_map): field name -> stripped cell; a column
\* beyond the end of the row gives no entry, a later column of the same
\* field overwrites an earlier one.
extract_row_data(row, header_map) ==
    LET cols(f) == {idx \in DOMAIN header_map : header_map[idx] = f /\ idx <= Len(row)}
        last(f) == CHOOSE idx \in cols(f) : \A other \in cols(f) : other <= idx
        value(f) == row[last(f)]
    IN [f \in {g \in header_values(header_map) : cols(g) # {}}
          |-> IF value(f) # NoneVal THEN Strip(value(f)) ELSE value(f)]

\* dict.get(fieldname)
get(row_data, fieldname) ==
    IF fieldname \in DOMAIN row_data THEN row_data[fieldname] ELSE NoneVal

\* ---------------------------------------------------------- quantity parser
\* flt(value): the number a cell holds or spells, 0 when it spells none.
flt(value) ==
    IF is_number(value) THEN number_of(value)
    ELSE IF \E n \in QtyNumbers : ToString(n) = value
         THEN CHOOSE n \in QtyNumbers : ToString(n) = value
         ELSE 0

\* str.split() on the quantity cells the model uses: the words between blanks.
Words == {"0", "-3", "5", "abc", "pcs", "PCS", "box", "Ea"}
split(value) ==
    IF \E a, b \in Words : value = a \o " " \o b
    THEN CHOOSE parts \in Words \X Words : value = parts[1] \o " " \o parts[2]
    ELSE IF \E a, b, c \in Words : value = a \o " " \o b \o " " \o c
         THEN CHOOSE parts \in Words \X Words \X Words :
                  value = parts[1] \o " " \o parts[2] \o " " \o parts[3]
         ELSE <<value>>

\* str.lower() on the unit words the model uses.
lower(s) ==
    CASE s = "PCS" -> "pcs"
      [] s = "Ea" -> "ea"
      [] OTHER -> s

\* Variant of parse_qty_and_uom that returns the number as parsed.
parse_qty_and_uom_raw(value) ==
    LET is_str == value # NoneVal /\ ~is_number(value)
        stripped == IF is_str THEN Strip(value) ELSE value
        parts == IF is_str /\ stripped # "" THEN split(stripped) ELSE <<>>
        first == IF parts # <<>> THEN parts[1] ELSE stripped
        uom == IF Len(parts) > 1 THEN parts[2] ELSE ""
        qty == IF first \notin {NoneVal, ""} THEN flt(first) ELSE 0
    IN [qty |-> qty, uom |-> uom]

\* parse_qty_and_uom(value), lines 375-386: the quantity (1 unless positive)
\* and the unit word after it ("" when there is none).
parse_qty_and_uom(value) ==
    LET is_str == value # NoneVal /\ ~is_number(value)
        stripped == IF is_str THEN Strip(value) ELSE value
        parts == IF is_str /\ stripped # "" THEN split(stripped) ELSE <<>>
        first == IF parts # <<>> THEN parts[1] ELSE stripped
        uom == IF Len(parts) > 1 THEN parts[2] ELSE ""
        qty == IF first \notin {NoneVal, ""} THEN flt(first) ELSE 0
    IN [qty |-> IF qty > 0 THEN qty ELSE 1, uom |-> uom]

\* normalize_qty(value), lines 370-372, for a quantity that is already a number.
normalize_qty(value) ==
    LET qty == parse_qty_and_uom(NumCell(value)).qty
    IN IF qty > 0 THEN qty ELSE 1

\* Variant of map_qty_uom that compares the unit as it is spelled.
map_qty_uom_case_sensitive(uom) ==
    IF Strip(cstr(uom)) \in {"each", "ea", "nos", "no", "pcs", "pc"} THEN "Nos" ELSE ""

\* map_qty_uom(uom), lines 389-393
map_qty_uom(uom) ==
    IF lower(Strip(cstr(uom))) \in {"each", "ea", "nos", "no", "pcs", "pc"} THEN "Nos" ELSE ""

\* ------------------------------------------------------------------- state
VARIABLES
    file,         \* file[p]: the File document behind doc[p].plm_file
    doc,          \* doc[p]: the PLM BOM Import Tool record of request p
    itemDB,       \* item codes of the Item catalog
    item_uom,     \* item_uom[c]: stock_uom of the Item c of the catalog
    groupDB,      \* names of the Item Groups
    bomDB,        \* names of the saved BOM Creators
    defaults,     \* user / global default company, the company's currency
    pc,           \* pc[p]: where request p is in its handler
    run,          \* run[p]: the number of the run of its handler request p is in
    nodes,        \* nodes[p]: parsed nodes, from the root on
    stack,        \* stack[p]: level stack of frames, top last
    logs,         \* logs[p]: log lines of the running handler
    created, duplicates, skipped, errors,   \* counters of the running handler
    i,            \* i[p]: position of the row (node) the loop is at
    index,        \* index[p]: REV index inside get_unique_bom_creator_name
    bom_creator   \* bom_creator[p]: the BOM Creator document being built

vars == <<file, doc, itemDB, item_uom, groupDB, bomDB, defaults, pc, run, nodes, stack,
          logs, created, duplicates, skipped, errors, i, index, bom_creator>>

NoBom == [name |-> "", item_code |-> "", qty |-> 0, uom |-> "", items |-> <<>>]

\* ------------------------------------------------- import_bom_creator: parsing
\* The body of the node loop for one data row: the row becomes a node when it
\* is not blank and has a structure level and an item code.
is_node(row, header_map) ==
    LET row_data == extract_row_data(row, header_map)
        item_code == Strip(cstr(get(row_data, "item_code")))
        structure_level == get(row_data, "structure_level")
    IN /\ any(row)
       /\ structure_level \notin {NoneVal, ""}
       /\ item_code # ""

\* lines 141-143: the row's own unit, else the mapped unit word of its quantity
node_uom(stock_uom, qty_uom) ==
    IF stock_uom = "" /\ qty_uom # "" THEN map_qty_uom(qty_uom) ELSE stock_uom

make_node(row_idx, row, header_map) ==
    LET row_data == extract_row_data(row, header_map)
        parsed == parse_qty_and_uom(get(row_data, "qty"))
    IN [row_idx |-> row_idx,
        level |-> cint(get(row_data, "structure_level")),
        item_code |-> Strip(cstr(get(row_data, "item_code"))),
        item_group |-> Strip(cstr(get(row_data, "item_group"))),
        qty |-> parsed.qty,
        uom |-> node_uom(Strip(cstr(get(row_data, "stock_uom"))), parsed.uom)]

RECURSIVE parse_nodes(_, _, _)
parse_nodes(rows, header_map, row_idx) ==
    IF row_idx > Len(rows) THEN <<>>
    ELSE (IF is_node(rows[row_idx], header_map)
          THEN <<make_node(row_idx, rows[row_idx], header_map)>>
          ELSE <<>>)
         \o parse_nodes(rows, header_map, row_idx + 1)

min_level(ns) ==
    CHOOSE m \in {ns[k].level : k \in 1..Len(ns)} :
        \A k \in 1..Len(ns) : m <= ns[k].level

\* Variant of root_index that takes the last node of minimum level.
root_index_last(ns) ==
    CHOOSE k \in 1..Len(ns) :
        /\ ns[k].level = min_level(ns)
        /\ \A j \in (k + 1)..Len(ns) : ns[j].level # min_level(ns)

\* next(node for node in nodes if node["level"] == min_level), nodes.index(root)
root_index(ns) ==
    CHOOSE k \in 1..Len(ns) :
        /\ ns[k].level = min_level(ns)
        /\ \A j \in 1..(k - 1) : ns[j].level # min_level(ns)

\* nodes = nodes[root_index:]
nodes_from_root(ns) == SubSeq(ns, root_index(ns), Len(ns))

get_file_ok(f) == f.extension \in {"csv", "xlsx", "xls"}

company_of(d) == IF d.user_company # "" THEN d.user_company ELSE d.global_company

\* Variant of pop_frames that pops only strictly deeper frames (level < top).
RECURSIVE pop_frames_strict(_, _)
pop_frames_strict(st, level) ==
    IF st # <<>> /\ level < st[Len(st)].level
    THEN pop_frames_strict(SubSeq(st, 1, Len(st) - 1), level)
    ELSE st

\* while stack and level <= stack[-1]["level"]: stack.pop()
RECURSIVE pop_frames(_, _)
pop_frames(st, level) ==
    IF st # <<>> /\ level <= st[Len(st)].level
    THEN pop_frames(SubSeq(st, 1, Len(st) - 1), level)
    ELSE st

\* f"{base_name}-REV{index}"
candidate_name(base_name, idx) == base_name \o "-REV" \o ToString(idx)


\* ------------------------------------------------ import_bom_creator: actions
rows_of(p) == file[p].rows
header_map_of(p) == build_header_map(rows_of(p)[1])
parsed_nodes(p) == parse_nodes(rows_of(p), header_map_of(p), 2)

\* frappe.throw: the handler ends with an error, nothing is written.
abort(p, handler) ==
    /\ pc' = [pc EXCEPT ![p] = handler]
    /\ UNCHANGED <<file, doc, itemDB, item_uom, groupDB, bomDB, defaults, run, nodes, stack,
                   logs, created, duplicates, skipped, errors, i, index, bom_creator>>

\* line 110: no file attached
BomAbortNoFile(p) ==
    /\ pc[p] = "bom_start"
    /\ doc[p].plm_file = ""
    /\ abort(p, "bom_aborted")

\* line 113, get_file: the extension is not csv, xlsx or xls
BomAbortExtension(p) ==
    /\ pc[p] = "bom_start"
    /\ doc[p].plm_file # ""
    /\ ~get_file_ok(file[p])
    /\ abort(p, "bom_aborted")

\* line 116: no rows, or the header row only
BomAbortNoData(p) ==
    /\ pc[p] = "bom_start"
    /\ doc[p].plm_file # ""
    /\ get_file_ok(file[p])
    /\ Len(rows_of(p)) < 2
    /\ abort(p, "bom_aborted")

bom_rows_loaded(p) ==
    /\ pc[p] = "bom_start"
    /\ doc[p].plm_file # ""
    /\ get_file_ok(file[p])
    /\ Len(rows_of(p)) >= 2

\* line 120
BomAbortNoLevelColumn(p) ==
    /\ bom_rows_loaded(p)
    /\ "structure_level" \notin header_values(header_map_of(p))
    /\ abort(p, "bom_aborted")

\* line 122
BomAbortNoItemColumn(p) ==
    /\ bom_rows_loaded(p)
    /\ "structure_level" \in header_values(header_map_of(p))
    /\ "item_code" \notin header_values(header_map_of(p))
    /\ abort(p, "bom_aborted")

bom_header_ok(p) ==
    /\ bom_rows_loaded(p)
    /\ "structure_level" \in header_values(header_map_of(p))
    /\ "item_code" \in header_values(header_map_of(p))

\* line 157: no row became a node
BomAbortNoNodes(p) ==
    /\ bom_header_ok(p)
    /\ parsed_nodes(p) = <<>>
    /\ abort(p, "bom_aborted")

\* lines 109-163: load the rows, parse the nodes, pick the root and drop the
\* nodes before it
BomParse(p) ==
    /\ bom_header_ok(p)
    /\ parsed_nodes(p) # <<>>
    /\ nodes' = [nodes EXCEPT ![p] = nodes_from_root(parsed_nodes(p))]
    /\ pc' = [pc EXCEPT ![p] = "bom_root"]
    /\ UNCHANGED <<file, doc, itemDB, item_uom, groupDB, bomDB, defaults, run, stack,
                   logs, created, duplicates, skipped, errors, i, index, bom_creator>>

\* base_name = cstr(base_name).strip(), for the root's item code
base_name_of(p) == Strip(cstr(nodes[p][1].item_code))

\* line 164: the root item is not in the catalog
BomAbortRootMissing(p) ==
    /\ pc[p] = "bom_root"
    /\ nodes[p][1].item_code \notin itemDB
    /\ abort(p, "bom_aborted")

\* line 169
BomAbortNoCompany(p) ==
    /\ pc[p] = "bom_root"
    /\ nodes[p][1].item_code \in itemDB
    /\ company_of(defaults) = ""
    /\ abort(p, "bom_aborted")

\* Variant of BomAbortNoCurrency in which the BOM Creator was inserted before
\* the currency check.
BomAbortNoCurrencyAfterInsert(p) ==
    /\ pc[p] = "bom_root"
    /\ nodes[p][1].item_code \in itemDB
    /\ company_of(defaults) # ""
    /\ defaults.currency = ""
    /\ bomDB' = bomDB \cup {base_name_of(p)}
    /\ pc' = [pc EXCEPT ![p] = "bom_aborted"]
    /\ UNCHANGED <<file, doc, itemDB, item_uom, groupDB, defaults, run, nodes, stack,
                   logs, created, duplicates, skipped, errors, i, index, bom_creator>>

\* line 173
BomAbortNoCurrency(p) ==
    /\ pc[p] = "bom_root"
    /\ nodes[p][1].item_code \in itemDB
    /\ company_of(defaults) # ""
    /\ defaults.currency = ""
    /\ abort(p, "bom_aborted")

\* lines 164-177: all checks pass, the new document asks for its name
BomNew(p) ==
    /\ pc[p] = "bom_root"
    /\ nodes[p][1].item_code \in itemDB
    /\ company_of(defaults) # ""
    /\ defaults.currency # ""
    /\ logs' = [logs EXCEPT ![p] = <<>>]
    /\ pc' = [pc EXCEPT ![p] = "name_base"]
    /\ UNCHANGED <<file, doc, itemDB, item_uom, groupDB, bomDB, defaults, run, nodes, stack,
                   created, duplicates, skipped, errors, i, index, bom_creator>>

\* lines 178-204: the name is set; fill the document from the root, start
\* the stack with the root frame and zero the counters
start_tree(p, name) ==
    LET root == nodes[p][1]
    IN /\ bom_creator' = [bom_creator EXCEPT ![p] =
              [name |-> name, item_code |-> root.item_code,
               qty |-> normalize_qty(root.qty),
               uom |-> IF root.uom # "" THEN root.uom ELSE item_uom[root.item_code],
               items |-> <<>>]]
       /\ stack' = [stack EXCEPT ![p] =
              <<[level |-> root.level, item_code |-> root.item_code,
                 item_row_no |-> <<>>]>>]
       /\ created' = [created EXCEPT ![p] = 0]
       /\ skipped' = [skipped EXCEPT ![p] = 0]
       /\ errors' = [errors EXCEPT ![p] = 0]
       /\ i' = [i EXCEPT ![p] = 2]
       /\ pc' = [pc EXCEPT ![p] = "bom_loop"]

\* get_unique_bom_creator_name, lines 283-285: the base name is free
NameBaseFree(p) ==
    /\ pc[p] = "name_base"
    /\ base_name_of(p) \notin bomDB
    /\ start_tree(p, base_name_of(p))
    /\ UNCHANGED <<file, doc, itemDB, item_uom, groupDB, bomDB, defaults, run, nodes,
                   logs, duplicates, index>>

\* Variant of NameBaseTaken that starts counting at 0.
NameBaseTakenFromZero(p) ==
    /\ pc[p] = "name_base"
    /\ base_name_of(p) \in bomDB
    /\ index' = [index EXCEPT ![p] = 0]
    /\ pc' = [pc EXCEPT ![p] = "name_loop"]
    /\ UNCHANGED <<file, doc, itemDB, item_uom, groupDB, bomDB, defaults, run, nodes, stack,
                   logs, created, duplicates, skipped, errors, i, bom_creator>>

\* lines 284-287: the base name is taken, start counting
NameBaseTaken(p) ==
    /\ pc[p] = "name_base"
    /\ base_name_of(p) \in bomDB
    /\ index' = [index EXCEPT ![p] = 1]
    /\ pc' = [pc EXCEPT ![p] = "name_loop"]
    /\ UNCHANGED <<file, doc, itemDB, item_uom, groupDB, bomDB, defaults, run, nodes, stack,
                   logs, created, duplicates, skipped, errors, i, bom_creator>>

\* lines 289-291: the candidate is free
NameCandidateFree(p) ==
    /\ pc[p] = "name_loop"
    /\ candidate_name(base_name_of(p), index[p]) \notin bomDB
    /\ start_tree(p, candidate_name(base_name_of(p), index[p]))
    /\ UNCHANGED <<file, doc, itemDB, item_uom, groupDB, bomDB, defaults, run, nodes,
                   logs, duplicates, index>>

\* Variant of NameCandidateTaken that tries the same index again.
NameCandidateTakenSameIndex(p) ==
    /\ pc[p] = "name_loop"
    /\ candidate_name(base_name_of(p), index[p]) \in bomDB
    /\ UNCHANGED vars

\* lines 289-292: the candidate is taken, try the next index
NameCandidateTaken(p) ==
    /\ pc[p] = "name_loop"
    /\ candidate_name(base_name_of(p), index[p]) \in bomDB
    /\ index' = [index EXCEPT ![p] = index[p] + 1]
    /\ UNCHANGED <<file, doc, itemDB, item_uom, groupDB, bomDB, defaults, pc, run, nodes, stack,
                   logs, created, duplicates, skipped, errors, i, bom_creator>>


\* A log line "Row {row_idx}: {kind} {item_code} ...": kind is the outcome the
\* line reports; the summary line carries the document name and the counters.
log_line(kind, node) ==
    [kind |-> kind, row_idx |-> node.row_idx, item_code |-> node.item_code,
     counts |-> <<>>]

summary_line(name, counts) ==
    [kind |-> "summary", row_idx |-> 0, item_code |-> name, counts |-> counts]

\* Variant of in_bom_loop that ends the loop at the first failed append.
in_bom_loop_until_error(p) ==
    pc[p] = "bom_loop" /\ i[p] <= Len(nodes[p]) /\ errors[p] = 0

\* line 206: the loop has a node left
in_bom_loop(p) == pc[p] = "bom_loop" /\ i[p] <= Len(nodes[p])
node_at(p) == nodes[p][i[p]]
\* Variant of popped that never pops the root frame.
popped_keep_root(p) ==
    IF pop_frames(stack[p], node_at(p).level) = <<>> /\ stack[p] # <<>>
    THEN <<stack[p][1]>>
    ELSE pop_frames(stack[p], node_at(p).level)

\* lines 207-209: the stack after the pops for the node at hand
popped(p) == pop_frames(stack[p], node_at(p).level)

\* Variant of parent_row_no_of that names no parent row.
parent_row_no_of_none(parent) == <<>>

\* parent["item_row_no"] if parent["item_row_no"] else ""
parent_row_no_of(parent) ==
    IF parent.item_row_no # <<>> /\ parent.item_row_no[1] # 0
    THEN parent.item_row_no
    ELSE <<>>

\* Variant of next_idx that numbers rows from 0.
next_idx_zero_based(items) == Len(items)

\* The row number Document.append gives the new child row.
next_idx(items) == Len(items) + 1

\* Variant of RowNoParent that makes the node the new bottom of the stack.
RowNoParentReroots(p) ==
    /\ in_bom_loop(p)
    /\ popped(p) = <<>>
    /\ stack' = [stack EXCEPT ![p] =
           <<[level |-> node_at(p).level,
              item_code |-> node_at(p).item_code,
              item_row_no |-> <<>>]>>]
    /\ logs' = [logs EXCEPT ![p] = Append(@, log_line("no parent found", node_at(p)))]
    /\ skipped' = [skipped EXCEPT ![p] = @ + 1]
    /\ i' = [i EXCEPT ![p] = @ + 1]
    /\ UNCHANGED <<file, doc, itemDB, item_uom, groupDB, bomDB, defaults, pc, run, nodes,
                   created, duplicates, errors, index, bom_creator>>

\* lines 207-214: after the pops the stack is empty
RowNoParent(p) ==
    /\ in_bom_loop(p)
    /\ popped(p) = <<>>
    /\ stack' = [stack EXCEPT ![p] = popped(p)]
    /\ logs' = [logs EXCEPT ![p] = Append(@, log_line("no parent found", node_at(p)))]
    /\ skipped' = [skipped EXCEPT ![p] = @ + 1]
    /\ i' = [i EXCEPT ![p] = @ + 1]
    /\ UNCHANGED <<file, doc, itemDB, item_uom, groupDB, bomDB, defaults, pc, run, nodes,
                   created, duplicates, errors, index, bom_creator>>

\* Variant of RowItemMissing that leaves the stack as it was before the pops.
RowItemMissingNoPop(p) ==
    /\ in_bom_loop(p)
    /\ popped(p) # <<>>
    /\ node_at(p).item_code \notin itemDB
    /\ logs' = [logs EXCEPT ![p] = Append(@, log_line("item not found", node_at(p)))]
    /\ skipped' = [skipped EXCEPT ![p] = @ + 1]
    /\ i' = [i EXCEPT ![p] = @ + 1]
    /\ UNCHANGED <<file, doc, itemDB, item_uom, groupDB, bomDB, defaults, pc, run, nodes, stack,
                   created, duplicates, errors, index, bom_creator>>

\* lines 207-219: the item is not in the catalog
RowItemMissing(p) ==
    /\ in_bom_loop(p)
    /\ popped(p) # <<>>
    /\ node_at(p).item_code \notin itemDB
    /\ stack' = [stack EXCEPT ![p] = popped(p)]
    /\ logs' = [logs EXCEPT ![p] = Append(@, log_line("item not found", node_at(p)))]
    /\ skipped' = [skipped EXCEPT ![p] = @ + 1]
    /\ i' = [i EXCEPT ![p] = @ + 1]
    /\ UNCHANGED <<file, doc, itemDB, item_uom, groupDB, bomDB, defaults, pc, run, nodes,
                   created, duplicates, errors, index, bom_creator>>

\* The child row of lines 229-240; row_idx only records which file row the
\* child row was made from.
child_row(node, parent, idx) ==
    LET item_uom_ == IF node.uom # "" THEN node.uom ELSE item_uom[node.item_code]
        item_qty == normalize_qty(node.qty)
    IN [idx |-> idx,
        item_code |-> node.item_code,
        fg_item |-> parent.item_code,
        qty |-> item_qty,
        uom |-> item_uom_,
        stock_uom |-> item_uom_,
        stock_qty |-> item_qty,
        parent_row_no |-> parent_row_no_of(parent),
        row_idx |-> node.row_idx]

\* Variant of child_frame that numbers rows from 0.
child_frame_zero_based(node, row) ==
    [level |-> node.level, item_code |-> node.item_code, item_row_no |-> <<row.idx - 1>>]

\* The frame of lines 243-249
child_frame(node, row) ==
    [level |-> node.level, item_code |-> node.item_code, item_row_no |-> <<row.idx>>]

\* lines 207-249: the row is appended under the stack top and gets a frame
RowAppend(p) ==
    /\ in_bom_loop(p)
    /\ popped(p) # <<>>
    /\ node_at(p).item_code \in itemDB
    /\ LET parent == popped(p)[Len(popped(p))]
           row == child_row(node_at(p), parent, next_idx(bom_creator[p].items))
       IN /\ bom_creator' = [bom_creator EXCEPT ![p].items = Append(@, row)]
          /\ stack' = [stack EXCEPT ![p] = Append(popped(p), child_frame(node_at(p), row))]
    /\ created' = [created EXCEPT ![p] = @ + 1]
    /\ i' = [i EXCEPT ![p] = @ + 1]
    /\ UNCHANGED <<file, doc, itemDB, item_uom, groupDB, bomDB, defaults, pc, run, nodes,
                   logs, duplicates, skipped, errors, index>>

\* Variant of stack_after_failure that puts the popped frames back.
stack_after_failure_no_pop(p) == stack[p]

\* lines 208-209, 250-252: the frames popped for the node stay popped when
\* its append raises
stack_after_failure(p) == popped(p)

\* Variant of RowAppendFails that pushes a frame for the row that failed.
RowAppendFailsPushes(p) ==
    /\ in_bom_loop(p)
    /\ popped(p) # <<>>
    /\ node_at(p).item_code \in itemDB
    /\ stack' = [stack EXCEPT ![p] =
           Append(popped(p), [level |-> node_at(p).level,
                              item_code |-> node_at(p).item_code,
                              item_row_no |-> <<>>])]
    /\ logs' = [logs EXCEPT ![p] = Append(@, log_line("failed", node_at(p)))]
    /\ errors' = [errors EXCEPT ![p] = @ + 1]
    /\ i' = [i EXCEPT ![p] = @ + 1]
    /\ UNCHANGED <<file, doc, itemDB, item_uom, groupDB, bomDB, defaults, pc, run, nodes,
                   created, duplicates, skipped, index, bom_creator>>

\* lines 207-252: append raises; the row is logged as failed, nothing is pushed
RowAppendFails(p) ==
    /\ in_bom_loop(p)
    /\ popped(p) # <<>>
    /\ node_at(p).item_code \in itemDB
    /\ stack' = [stack EXCEPT ![p] = stack_after_failure(p)]
    /\ logs' = [logs EXCEPT ![p] = Append(@, log_line("failed", node_at(p)))]
    /\ errors' = [errors EXCEPT ![p] = @ + 1]
    /\ i' = [i EXCEPT ![p] = @ + 1]
    /\ UNCHANGED <<file, doc, itemDB, item_uom, groupDB, bomDB, defaults, pc, run, nodes,
                   created, duplicates, skipped, index, bom_creator>>

\* Variant of BomFinish that puts the summary after the row lines.
BomFinishSummaryLast(p) ==
    /\ pc[p] = "bom_loop"
    /\ i[p] > Len(nodes[p])
    /\ bomDB' = bomDB \cup {bom_creator[p].name}
    /\ logs' = [logs EXCEPT ![p] =
           @ \o <<summary_line(bom_creator[p].name, <<created[p], skipped[p], errors[p]>>)>>]
    /\ doc' = [doc EXCEPT ![p].bom_creation_log = logs'[p],
                          ![p].bom_parent_item = bom_creator[p].name]
    /\ pc' = [pc EXCEPT ![p] = "done"]
    /\ UNCHANGED <<file, itemDB, item_uom, groupDB, defaults, run, nodes, stack,
                   created, duplicates, skipped, errors, i, index, bom_creator>>

\* lines 254-265: save and submit the BOM Creator, put the summary first in
\* the log and save the log and the name on the request record
BomFinish(p) ==
    /\ pc[p] = "bom_loop"
    /\ i[p] > Len(nodes[p])
    /\ bomDB' = bomDB \cup {bom_creator[p].name}
    /\ logs' = [logs EXCEPT ![p] =
           <<summary_line(bom_creator[p].name, <<created[p], skipped[p], errors[p]>>)>> \o @]
    /\ doc' = [doc EXCEPT ![p].bom_creation_log = logs'[p],
                          ![p].bom_parent_item = bom_creator[p].name]
    /\ pc' = [pc EXCEPT ![p] = "done"]
    /\ UNCHANGED <<file, itemDB, item_uom, groupDB, defaults, run, nodes, stack,
                   created, duplicates, skipped, errors, i, index, bom_creator>>

BomStep(p) ==
    \/ BomAbortNoFile(p)
    \/ BomAbortExtension(p)
    \/ BomAbortNoData(p)
    \/ BomAbortNoLevelColumn(p)
    \/ BomAbortNoItemColumn(p)
    \/ BomAbortNoNodes(p)
    \/ BomParse(p)
    \/ BomAbortRootMissing(p)
    \/ BomAbortNoCompany(p)
    \/ BomAbortNoCurrency(p)
    \/ BomNew(p)
    \/ NameBaseFree(p)
    \/ NameBaseTaken(p)
    \/ NameCandidateFree(p)
    \/ NameCandidateTaken(p)
    \/ RowNoParent(p)
    \/ RowItemMissing(p)
    \/ RowAppend(p)
    \/ RowAppendFails(p)
    \/ BomFinish(p)

\* ------------------------------------------------------ import_items: actions
\* line 20
ItemsAbortNoFile(p) ==
    /\ pc[p] = "items_start"
    /\ doc[p].plm_file = ""
    /\ abort(p, "items_aborted")

\* line 23, get_file
ItemsAbortExtension(p) ==
    /\ pc[p] = "items_start"
    /\ doc[p].plm_file # ""
    /\ ~get_file_ok(file[p])
    /\ abort(p, "items_aborted")

\* line 26
ItemsAbortNoData(p) ==
    /\ pc[p] = "items_start"
    /\ doc[p].plm_file # ""
    /\ get_file_ok(file[p])
    /\ Len(rows_of(p)) < 2
    /\ abort(p, "items_aborted")

items_rows_loaded(p) ==
    /\ pc[p] = "items_start"
    /\ doc[p].plm_file # ""
    /\ get_file_ok(file[p])
    /\ Len(rows_of(p)) >= 2

\* line 30
ItemsAbortNoItemColumn(p) ==
    /\ items_rows_loaded(p)
    /\ "item_code" \notin header_values(header_map_of(p))
    /\ abort(p, "items_aborted")

\* lines 19-37: the file is accepted, the log and the counters start empty
ItemsLoad(p) ==
    /\ items_rows_loaded(p)
    /\ "item_code" \in header_values(header_map_of(p))
    /\ logs' = [logs EXCEPT ![p] = <<>>]
    /\ created' = [created EXCEPT ![p] = 0]
    /\ duplicates' = [duplicates EXCEPT ![p] = 0]
    /\ skipped' = [skipped EXCEPT ![p] = 0]
    /\ errors' = [errors EXCEPT ![p] = 0]
    /\ i' = [i EXCEPT ![p] = 2]
    /\ pc' = [pc EXCEPT ![p] = "items_loop"]
    /\ UNCHANGED <<file, doc, itemDB, item_uom, groupDB, bomDB, defaults, run, nodes, stack,
                   index, bom_creator>>

in_items_loop(p) == pc[p] = "items_loop" /\ i[p] <= Len(rows_of(p))
row_at(p) == rows_of(p)[i[p]]
row_data_at(p) == extract_row_data(row_at(p), header_map_of(p))
item_code_at(p) == Strip(cstr(get(row_data_at(p), "item_code")))
item_group_at(p) == Strip(cstr(get(row_data_at(p), "item_group")))

item_log_line(kind, p) ==
    [kind |-> kind, row_idx |-> i[p], item_code |-> item_code_at(p), counts |-> <<>>]

\* lines 40-41: a blank row is passed over
ItemRowBlank(p) ==
    /\ in_items_loop(p)
    /\ ~any(row_at(p))
    /\ i' = [i EXCEPT ![p] = @ + 1]
    /\ UNCHANGED <<file, doc, itemDB, item_uom, groupDB, bomDB, defaults, pc, run, nodes, stack,
                   logs, created, duplicates, skipped, errors, index, bom_creator>>

\* lines 43-48
ItemRowNoCode(p) ==
    /\ in_items_loop(p)
    /\ any(row_at(p))
    /\ item_code_at(p) = ""
    /\ logs' = [logs EXCEPT ![p] = Append(@, item_log_line("skipped (missing item code)", p))]
    /\ skipped' = [skipped EXCEPT ![p] = @ + 1]
    /\ i' = [i EXCEPT ![p] = @ + 1]
    /\ UNCHANGED <<file, doc, itemDB, item_uom, groupDB, bomDB, defaults, pc, run, nodes, stack,
                   created, duplicates, errors, index, bom_creator>>

\* lines 50-54
ItemRowNoGroup(p) ==
    /\ in_items_loop(p)
    /\ any(row_at(p))
    /\ item_code_at(p) # ""
    /\ item_group_at(p) = ""
    /\ logs' = [logs EXCEPT ![p] = Append(@, item_log_line("skipped (missing item group)", p))]
    /\ skipped' = [skipped EXCEPT ![p] = @ + 1]
    /\ i' = [i EXCEPT ![p] = @ + 1]
    /\ UNCHANGED <<file, doc, itemDB, item_uom, groupDB, bomDB, defaults, pc, run, nodes, stack,
                   created, duplicates, errors, index, bom_creator>>

item_row_valid(p) ==
    /\ in_items_loop(p)
    /\ any(row_at(p))
    /\ item_code_at(p) # ""
    /\ item_group_at(p) # ""

\* ensure_item_group, lines 396-405: an existing group is returned, a new one
\* is inserted
ensure_item_group(groups, item_group) == groups \cup {item_group}

\* lines 56-61: inserting the new Item Group raises
ItemRowGroupFails(p) ==
    /\ item_row_valid(p)
    /\ item_group_at(p) \notin groupDB
    /\ logs' = [logs EXCEPT ![p] = Append(@, item_log_line("failed (item group)", p))]
    /\ errors' = [errors EXCEPT ![p] = @ + 1]
    /\ i' = [i EXCEPT ![p] = @ + 1]
    /\ UNCHANGED <<file, doc, itemDB, item_uom, groupDB, bomDB, defaults, pc, run, nodes, stack,
                   created, duplicates, skipped, index, bom_creator>>

\* lines 56-66: the item is already in the catalog
ItemRowDuplicate(p) ==
    /\ item_row_valid(p)
    /\ groupDB' = ensure_item_group(groupDB, item_group_at(p))
    /\ item_code_at(p) \in itemDB
    /\ logs' = [logs EXCEPT ![p] = Append(@, item_log_line("duplicate", p))]
    /\ duplicates' = [duplicates EXCEPT ![p] = @ + 1]
    /\ i' = [i EXCEPT ![p] = @ + 1]
    /\ UNCHANGED <<file, doc, itemDB, item_uom, bomDB, defaults, pc, run, nodes, stack,
                   created, skipped, errors, index, bom_creator>>

\* Variant of ItemRowCreated that counts and logs the item without inserting it.
ItemRowCreatedNoInsert(p) ==
    /\ item_row_valid(p)
    /\ groupDB' = ensure_item_group(groupDB, item_group_at(p))
    /\ item_code_at(p) \notin itemDB
    /\ created' = [created EXCEPT ![p] = @ + 1]
    /\ logs' = [logs EXCEPT ![p] = Append(@, item_log_line("created", p))]
    /\ i' = [i EXCEPT ![p] = @ + 1]
    /\ UNCHANGED <<file, doc, itemDB, item_uom, bomDB, defaults, pc, run, nodes, stack,
                   duplicates, skipped, errors, index, bom_creator>>

\* lines 56-92: the item is inserted
ItemRowCreated(p) ==
    /\ item_row_valid(p)
    /\ groupDB' = ensure_item_group(groupDB, item_group_at(p))
    /\ item_code_at(p) \notin itemDB
    /\ itemDB' = itemDB \cup {item_code_at(p)}
    /\ item_uom' = [c \in itemDB' |->
           IF c \in itemDB THEN item_uom[c]
           ELSE IF Strip(cstr(get(row_data_at(p), "stock_uom"))) # ""
                THEN Strip(cstr(get(row_data_at(p), "stock_uom")))
                ELSE "Nos"]
    /\ created' = [created EXCEPT ![p] = @ + 1]
    /\ logs' = [logs EXCEPT ![p] = Append(@, item_log_line("created", p))]
    /\ i' = [i EXCEPT ![p] = @ + 1]
    /\ UNCHANGED <<file, doc, bomDB, defaults, pc, run, nodes, stack,
                   duplicates, skipped, errors, index, bom_creator>>

\* lines 56-95: building or inserting the item raises
ItemRowInsertFails(p) ==
    /\ item_row_valid(p)
    /\ groupDB' = ensure_item_group(groupDB, item_group_at(p))
    /\ item_code_at(p) \notin itemDB
    /\ logs' = [logs EXCEPT ![p] = Append(@, item_log_line("failed", p))]
    /\ errors' = [errors EXCEPT ![p] = @ + 1]
    /\ i' = [i EXCEPT ![p] = @ + 1]
    /\ UNCHANGED <<file, doc, itemDB, item_uom, bomDB, defaults, pc, run, nodes, stack,
                   created, duplicates, skipped, index, bom_creator>>

\* lines 97-104: the summary goes first and the log is saved on the record
ItemsFinish(p) ==
    /\ pc[p] = "items_loop"
    /\ i[p] > Len(rows_of(p))
    /\ logs' = [logs EXCEPT ![p] =
           <<summary_line("", <<created[p], duplicates[p], skipped[p], errors[p]>>)>> \o @]
    /\ doc' = [doc EXCEPT ![p].item_creation_log = logs'[p]]
    /\ pc' = [pc EXCEPT ![p] = "items_done"]
    /\ UNCHANGED <<file, itemDB, item_uom, groupDB, bomDB, defaults, run, nodes, stack,
                   created, duplicates, skipped, errors, i, index, bom_creator>>

\* The user runs import_items again on the same record and file; the locals
\* of the finished call are gone.
ItemsAgain(p) ==
    /\ pc[p] = "items_done"
    /\ run[p] < MaxRuns
    /\ run' = [run EXCEPT ![p] = @ + 1]
    /\ pc' = [pc EXCEPT ![p] = "items_start"]
    /\ logs' = [logs EXCEPT ![p] = <<>>]
    /\ created' = [created EXCEPT ![p] = 0]
    /\ duplicates' = [duplicates EXCEPT ![p] = 0]
    /\ skipped' = [skipped EXCEPT ![p] = 0]
    /\ errors' = [errors EXCEPT ![p] = 0]
    /\ i' = [i EXCEPT ![p] = 0]
    /\ UNCHANGED <<file, doc, itemDB, item_uom, groupDB, bomDB, defaults, nodes, stack,
                   index, bom_creator>>

ItemsStep(p) ==
    \/ ItemsAbortNoFile(p)
    \/ ItemsAbortExtension(p)
    \/ ItemsAbortNoData(p)
    \/ ItemsAbortNoItemColumn(p)
    \/ ItemsLoad(p)
    \/ ItemRowBlank(p)
    \/ ItemRowNoCode(p)
    \/ ItemRowNoGroup(p)
    \/ ItemRowGroupFails(p)
    \/ ItemRowDuplicate(p)
    \/ ItemRowCreated(p)
    \/ ItemRowInsertFails(p)
    \/ ItemsFinish(p)
    \/ ItemsAgain(p)

Next == \E p \in Procs : BomStep(p) \/ ItemsStep(p)

\* ------------------------------------------------------------ initial states
SeqsOf(S, lo, hi) == UNION {[1..n -> S] : n \in lo..hi}

File(extension, header, data) == [extension |-> extension, rows |-> <<header>> \o data]
NoFile == [extension |-> "", rows |-> <<>>]

NewDoc(plm_file) ==
    [plm_file |-> plm_file, item_creation_log |-> <<>>,
     bom_creation_log |-> <<>>, bom_parent_item |-> ""]

GoodDefaults == [user_company |-> "ACME", global_company |-> "", currency |-> "INR"]
AllDefaults == [user_company : {"", "ACME"}, global_company : {"", "ACME"},
                currency : {"", "INR"}]

\* Well-formed BOM files: every data row has a level and an item code.
TreeRow == {<<ToString(l), c>> : l \in 0..MaxLevel, c \in {"A", "B"}}
TreeFiles == {File("csv", <<"Level", "Number">>, d) : d \in SeqsOf(TreeRow, 1, MaxRows)}

\* BOM files with blank, short and malformed rows.
CellRow ==
    {<<"", l, c>> : l \in {"", NoneVal, "x", "-1", "1"}, c \in {"", " ", " A", "B"}}
    \cup {<<>>, <<"", "1">>, <<"", "", "">>, <<"note", "", "">>}
CellFiles ==
    {File("xlsx", <<"Remarks", "Structure Level", "Item Code">>, d) :
        d \in SeqsOf(CellRow, 0, MaxSmallRows)}

\* BOM files with a quantity and a unit column: a root row and one row below.
QtyCells ==
    {NoneVal, "", "0", "-3", "abc", "5", NumCell(5), NumCell(0), NumCell(0 - 3),
     "5 pcs", "0 pcs", "abc pcs", "5 PCS", "5 Ea", "5 box", "5 pcs box"}
UomCells == {"", "Mtr"}
QtyRow(l) == {<<l, "A", q, u>> : q \in QtyCells, u \in UomCells}
QtyFiles ==
    {File("csv", <<"Level", "Number", "Qty", "UOM">>, <<r, c>>) :
        r \in QtyRow("0"), c \in QtyRow("1")}

\* Files with a bad extension, no rows, a header without a required column or
\* no usable data row.
DefectFiles ==
    {[extension |-> e, rows |-> r] :
        e \in {"csv", "xlsx", "xls", "pdf"},
        r \in {<<>>} \cup
              UNION {{<<h>>, <<h, <<"0", "A">>>>, <<h, <<"", "A">>>>} :
                       h \in {<<"Level", "Number">>, <<"Number">>, <<"Level">>,
                              <<"Remarks">>, <<>>}}}

\* One-root files for the naming resolver; the second item code is itself
\* spelled like a revision of the first.
RootCodes == {"A", candidate_name("A", 1)}
BomNames == RootCodes \cup {candidate_name(b, k) : b \in RootCodes, k \in 1..MaxRev}
RootFiles ==
    {File("csv", <<"Level", "Number">>, <<<<"0", c>>>> \o d) :
        c \in RootCodes, d \in {<<>>, <<<<"1", "A">>>>}}

\* Short BOM files for two requests running side by side.
RaceRow == {<<"0", "A">>, <<"1", "A">>, <<"1", "B">>}
RaceFiles == {File("csv", <<"Level", "Number">>, d) : d \in SeqsOf(RaceRow, 1, MaxRaceRows)}

\* Item files: item code and part type per row; <<"", "">> is a blank row.
ItemRow == {<<c, g>> : c \in {"", " ", "A", "B"}, g \in {"", "G"}}
ItemFiles == {File("csv", <<"Number", "Part Type">>, d) : d \in SeqsOf(ItemRow, 1, MaxItemRows)}

InitLocals ==
    /\ run = [p \in Procs |-> 1]
    /\ nodes = [p \in Procs |-> <<>>]
    /\ stack = [p \in Procs |-> <<>>]
    /\ logs = [p \in Procs |-> <<>>]
    /\ created = [p \in Procs |-> 0]
    /\ duplicates = [p \in Procs |-> 0]
    /\ skipped = [p \in Procs |-> 0]
    /\ errors = [p \in Procs |-> 0]
    /\ i = [p \in Procs |-> 0]
    /\ index = [p \in Procs |-> 0]
    /\ bom_creator = [p \in Procs |-> NoBom]

\* Request 1 is about to run the handler that starts at pc1 on one of files
\* (attached or not); request 2 is idle.
InitOne(pc1, files, attached, items, groups, boms, defs) ==
    /\ \E f \in files : file = [p \in Procs |-> IF p = 1 THEN f ELSE NoFile]
    /\ \E url \in attached : doc = [p \in Procs |-> NewDoc(IF p = 1 THEN url ELSE "")]
    /\ itemDB \in items
    /\ item_uom = [c \in itemDB |-> "Kg"]
    /\ groupDB \in groups
    /\ bomDB \in boms
    /\ defaults \in defs
    /\ pc = [p \in Procs |-> IF p = 1 THEN pc1 ELSE "idle"]
    /\ InitLocals

\* Requests 1 and 2 are both about to run a handler, each on its own record.
InitTwo(pc1, files1, files2, attached, items, boms, defs) ==
    /\ \E f1 \in files1, f2 \in files2 : file = [p \in Procs |-> IF p = 1 THEN f1 ELSE f2]
    /\ \E url \in attached :
           doc = [p \in Procs |-> NewDoc(IF p = 1 THEN url ELSE "/files/plm2.csv")]
    /\ itemDB \in items
    /\ item_uom = [c \in itemDB |-> "Kg"]
    /\ groupDB = {}
    /\ bomDB \in boms
    /\ defaults \in defs
    /\ pc = [p \in Procs |-> IF p = 1 THEN pc1 ELSE "bom_start"]
    /\ InitLocals

Init ==
    \/ InitOne("bom_start", TreeFiles, {"/files/plm.csv"}, {{"A"}, {"A", "B"}},
               {{}}, {{}}, {GoodDefaults})
    \/ InitOne("bom_start", CellFiles, {"/files/plm.xlsx"}, SUBSET {"A", "B"},
               {{}}, {{}}, {GoodDefaults})
    \/ InitOne("bom_start", DefectFiles, {"", "/files/plm"}, SUBSET {"A"},
               {{}}, {{}}, {GoodDefaults})
    \/ InitOne("bom_start", RootFiles, {"/files/plm.csv"}, {RootCodes},
               {{}}, SUBSET BomNames, AllDefaults)
    \/ InitOne("bom_start", QtyFiles, {"/files/plm.csv"}, {{"A"}},
               {{}}, {{}}, {GoodDefaults})
    \/ InitOne("items_start", ItemFiles, {"/files/plm.csv"}, SUBSET {"A", "B"},
               SUBSET {"G"}, {{}}, {GoodDefaults})
    \/ InitOne("items_start", DefectFiles, {"", "/files/plm"}, SUBSET {"A"},
               {{}}, {{}}, {GoodDefaults})

Spec == Init /\ [][Next]_vars

\* A request that is past the abort checks of import_bom_creator takes its
\* next step in the end: the handler runs to its return.  The files of the
\* tree family are shorter.
LiveRow == {<<l, c>> : l \in {"0", "1", "2"}, c \in {"A", "B"}}
LiveFiles == {File("csv", <<"Level", "Number">>, d) : d \in SeqsOf(LiveRow, 1, MaxLiveRows)}
InitLive ==
    \/ InitOne("bom_start", LiveFiles, {"/files/plm.csv"}, {{"A"}, {"A", "B"}},
               {{}}, {{}}, {GoodDefaults})
    \/ InitOne("bom_start", DefectFiles, {"", "/files/plm"}, SUBSET {"A"},
               {{}}, {{}}, {GoodDefaults})
    \/ InitOne("bom_start", RootFiles, {"/files/plm.csv"}, {RootCodes},
               {{}}, SUBSET BomNames, AllDefaults)
    \/ InitOne("items_start", ItemFiles, {"/files/plm.csv"}, SUBSET {"A", "B"},
               SUBSET {"G"}, {{}}, {GoodDefaults})
    \/ InitOne("items_start", DefectFiles, {"", "/files/plm"}, SUBSET {"A"},
               {{}}, {{}}, {GoodDefaults})
\* The steps of import_bom_creator after its last abort check (line 174).
TreeStep(p) ==
    \/ NameBaseFree(p)
    \/ NameBaseTaken(p)
    \/ NameCandidateFree(p)
    \/ NameCandidateTaken(p)
    \/ RowNoParent(p)
    \/ RowItemMissing(p)
    \/ RowAppend(p)
    \/ RowAppendFails(p)
    \/ BomFinish(p)
Fairness == \A p \in Procs : WF_vars(TreeStep(p))
SpecLive == InitLive /\ [][Next]_vars /\ Fairness

\* Two requests side by side: two BOM imports, or an item import next to a
\* BOM import.
InitRace ==
    \/ InitTwo("bom_start", RootFiles, RootFiles, {"/files/plm.csv"}, {RootCodes},
               SUBSET {"A", candidate_name("A", 1)}, AllDefaults)
    \/ InitTwo("bom_start", RaceFiles, RootFiles, {"/files/plm.csv"}, SUBSET {"A", "B"},
               {{}}, {GoodDefaults})
    \/ InitTwo("bom_start", DefectFiles, RootFiles, {"", "/files/plm"}, {{"A"}},
               {{}}, {GoodDefaults})
    \/ InitTwo("items_start", ItemFiles \cup DefectFiles, RootFiles, {"", "/files/plm"},
               SUBSET {"A"}, {{}}, {GoodDefaults})

SpecRace == InitRace /\ [][Next]_vars

\* ================================================================ properties
\* Reading the tree of request p back in terms of its nodes.
InTree(p) == pc[p] \in {"bom_loop", "done"}
Items(p) == bom_creator[p].items
Level(p, k) == nodes[p][k].level
Processed(p) == 2..(i[p] - 1)

Logged(p, k, kind) ==
    \E n \in 1..Len(logs[p]) :
        logs[p][n].row_idx = nodes[p][k].row_idx /\ logs[p][n].kind = kind
Dropped(p, k) ==
    \E n \in 1..Len(logs[p]) : logs[p][n].row_idx = nodes[p][k].row_idx
IsCreated(p, k) ==
    \E n \in 1..Len(Items(p)) : Items(p)[n].row_idx = nodes[p][k].row_idx
RowOfNode(p, k) ==
    CHOOSE n \in 1..Len(Items(p)) : Items(p)[n].row_idx = nodes[p][k].row_idx
NodeOfRow(p, n) ==
    CHOOSE k \in 1..Len(nodes[p]) : nodes[p][k].row_idx = Items(p)[n].row_idx

\* The row that a child row names as its parent: 0 for the root.
HasParent(p, n) ==
    \/ Items(p)[n].parent_row_no = <<>>
    \/ \E m \in 1..Len(Items(p)) : Items(p)[m].idx = Items(p)[n].parent_row_no[1]
ParentRow(p, n) ==
    IF Items(p)[n].parent_row_no = <<>> THEN 0
    ELSE CHOOSE m \in 1..Len(Items(p)) : Items(p)[m].idx = Items(p)[n].parent_row_no[1]
ParentNode(p, n) == IF ParentRow(p, n) = 0 THEN 1 ELSE NodeOfRow(p, ParentRow(p, n))

HasSmaller(p, k) == \E j \in 1..(k - 1) : Level(p, j) < Level(p, k)
NearestSmaller(p, k) ==
    CHOOSE j \in 1..(k - 1) :
        /\ Level(p, j) < Level(p, k)
        /\ \A m \in (j + 1)..(k - 1) : Level(p, m) >= Level(p, k)

\* C1: every appended row has a parent, and the parent's level is strictly
\* less than the level of the appended node, whatever items are missing and
\* whatever appends fail.
C1_ParentLevelLower ==
    \A p \in Procs : InTree(p) =>
        \A n \in 1..Len(Items(p)) :
            /\ HasParent(p, n)
            /\ Items(p)[n].fg_item = nodes[p][ParentNode(p, n)].item_code
            /\ Level(p, ParentNode(p, n)) < Level(p, NodeOfRow(p, n))

C1_Witness ==
    \E p \in Procs :
        /\ pc[p] = "done"
        /\ \E k \in Processed(p) : Dropped(p, k)
        /\ \E n \in 1..Len(Items(p)) : ParentRow(p, n) # 0


\* C2: the root is the first parsed node, in file order, of minimum level; the
\* nodes before it are dropped from the node list and never appended, logged
\* or counted.
C2_RootSelection ==
    \A p \in Procs : (pc[p] \in {"bom_root", "name_base", "name_loop", "bom_loop", "done"}) =>
        LET all == parsed_nodes(p)
            root == nodes[p][1]
            after == {k \in 1..Len(all) : all[k].row_idx >= root.row_idx}
        IN /\ \A k \in 1..Len(all) : root.level <= all[k].level
           /\ \A k \in 1..Len(all) : all[k].row_idx < root.row_idx => all[k].level > root.level
           /\ \E k \in 1..Len(all) : all[k] = root
           /\ Len(nodes[p]) = Cardinality(after)
           /\ \A k \in 1..Len(nodes[p]) : nodes[p][k] = all[k + Len(all) - Len(nodes[p])]
           /\ \A n \in 1..Len(Items(p)) : Items(p)[n].row_idx > root.row_idx
           /\ \A n \in 1..Len(logs[p]) :
                  logs[p][n].kind # "summary" => logs[p][n].row_idx > root.row_idx
           /\ InTree(p) => created[p] + skipped[p] + errors[p] = i[p] - 2

\* A finished run whose file has nodes before the root and another node of the
\* root's level after it.
C2_Witness ==
    \E p \in Procs :
        /\ pc[p] = "done"
        /\ Len(parsed_nodes(p)) > Len(nodes[p])
        /\ \E k \in 2..Len(nodes[p]) : Level(p, k) = Level(p, 1)
        /\ created[p] > 0

\* The premise of C3: every item of the file is in the catalog and no append
\* has failed.
AllGood(p) ==
    /\ \A k \in 1..Len(nodes[p]) : nodes[p][k].item_code \in itemDB
    /\ errors[p] = 0

ChildOfNearestSmaller(p, k) ==
    /\ IsCreated(p, k)
    /\ HasParent(p, RowOfNode(p, k))
    /\ ParentNode(p, RowOfNode(p, k)) = NearestSmaller(p, k)

\* C3 as stated: with all items present and no failed append, every node after
\* the root that has a preceding node of strictly smaller level is a child of
\* the nearest such node.
C3_Original ==
    \A p \in Procs : (InTree(p) /\ AllGood(p)) =>
        \A k \in Processed(p) : HasSmaller(p, k) => ChildOfNearestSmaller(p, k)

\* No node from the one after the root up to node k is as shallow as the root.
BelowRoot(p, k) == \A j \in 2..k : Level(p, j) > Level(p, 1)

\* C3 amended: with all items present and no failed append, every node after
\* the root is a child of the nearest preceding node of strictly smaller level
\* as long as no node after the root, up to it, has the root's level; rows are
\* appended in file order; a node at or after a node of the root's level is
\* skipped with "no parent found".
C3_NearestSmallerParent ==
    \A p \in Procs : (InTree(p) /\ AllGood(p)) =>
        /\ \A k \in Processed(p) :
              IF BelowRoot(p, k)
              THEN ChildOfNearestSmaller(p, k)
              ELSE Logged(p, k, "no parent found") /\ ~IsCreated(p, k)
        /\ \A n, m \in 1..Len(Items(p)) :
              n < m => /\ Items(p)[n].row_idx < Items(p)[m].row_idx
                       /\ Items(p)[n].idx < Items(p)[m].idx

\* Two consecutive siblings under the root and a grandchild under the second.
C3_Witness ==
    \E p \in Procs :
        /\ pc[p] = "done" /\ AllGood(p)
        /\ Len(Items(p)) >= 3
        /\ ParentRow(p, 1) = 0 /\ ParentRow(p, 2) = 0 /\ ParentRow(p, 3) = 2


\* C4: a node that was dropped (item not found, no parent found, failed
\* append) has no stack frame and is no row's parent: every frame is the root
\* frame or the frame of an appended row, and every row's parent is the root
\* or an earlier appended row whose item is the row's fg_item.
C4_OnlyCreatedParents ==
    \A p \in Procs : InTree(p) =>
        /\ \A f \in 1..Len(stack[p]) :
              \/ /\ f = 1
                 /\ stack[p][f] = [level |-> Level(p, 1),
                                   item_code |-> nodes[p][1].item_code,
                                   item_row_no |-> <<>>]
              \/ \E n \in 1..Len(Items(p)) :
                     /\ stack[p][f].item_row_no = <<Items(p)[n].idx>>
                     /\ stack[p][f].item_code = Items(p)[n].item_code
                     /\ stack[p][f].level = Level(p, NodeOfRow(p, n))
        /\ \A n \in 1..Len(Items(p)) :
              /\ HasParent(p, n)
              /\ ParentRow(p, n) < n
              /\ Items(p)[n].fg_item = nodes[p][ParentNode(p, n)].item_code
              /\ ~Dropped(p, ParentNode(p, n))
        /\ \A k \in Processed(p) : Dropped(p, k) => ~IsCreated(p, k)

\* A row was appended after an item-not-found skip and a failed append.
C4_Witness ==
    \E p \in Procs :
        /\ InTree(p)
        /\ \E k, j, m \in Processed(p) :
              /\ k < m /\ j < m
              /\ Logged(p, k, "item not found")
              /\ Logged(p, j, "failed")
              /\ IsCreated(p, m)

HasStackParent(p, k) ==
    \E j \in 1..(k - 1) :
        /\ j = 1 \/ IsCreated(p, j)
        /\ Level(p, j) < Level(p, k)
        /\ \A m \in (j + 1)..(k - 1) : Level(p, m) > Level(p, j)
StackParent(p, k) ==
    CHOOSE j \in 1..(k - 1) :
        /\ j = 1 \/ IsCreated(p, j)
        /\ Level(p, j) < Level(p, k)
        /\ \A m \in (j + 1)..(k - 1) : Level(p, m) > Level(p, j)
        /\ \A j2 \in (j + 1)..(k - 1) :
               ~(/\ IsCreated(p, j2)
                 /\ Level(p, j2) < Level(p, k)
                 /\ \A m \in (j2 + 1)..(k - 1) : Level(p, m) > Level(p, j2))

C6_UniqueName ==
    \A p \in Procs : pc[p] = "bom_loop" =>
        LET base == nodes[p][1].item_code
            name == bom_creator[p].name
        IN /\ name \notin bomDB
           /\ base \notin bomDB => name = base
           /\ base \in bomDB =>
                 \E k \in 1..(MaxRev + 2) :
                     /\ name = candidate_name(base, k)
                     /\ \A j \in 1..(k - 1) : candidate_name(base, j) \in bomDB

\* The base name and -REV1 are taken, the resolver has returned -REV2.
C6_Witness ==
    \E p \in Procs :
        /\ pc[p] = "bom_loop"
        /\ nodes[p][1].item_code \in bomDB
        /\ bom_creator[p].name = candidate_name(nodes[p][1].item_code, 2)

\* C7: two imports of the same root item never hold the same BOM Creator name.
C7_NoSharedName ==
    \A p, q \in Procs :
        (/\ p # q
         /\ InTree(p) /\ InTree(q)
         /\ nodes[p][1].item_code = nodes[q][1].item_code)
        => bom_creator[p].name # bom_creator[q].name

\* Reading the log lines of import_items by file row.
HasLine(log, r) == \E n \in 1..Len(log) : log[n].row_idx = r
KindOf(log, r) == (CHOOSE n \in 1..Len(log) : log[n].row_idx = r)
KindAt(log, r) == IF HasLine(log, r) THEN log[KindOf(log, r)].kind ELSE "none"
SecondRunDone(p) == pc[p] = "items_loop" /\ i[p] > Len(rows_of(p)) /\ run[p] >= 2

\* C8 as stated: the second run creates nothing and logs every non-blank data
\* row as a duplicate.
C8_Original ==
    \A p \in Procs : SecondRunDone(p) =>
        /\ created[p] = 0
        /\ \A r \in 2..Len(rows_of(p)) : any(rows_of(p)[r]) => KindAt(logs[p], r) = "duplicate"

\* C8 amended: on the second run every row that the first run created or found
\* duplicate is logged as duplicate, every row the first run skipped is
\* skipped again for the same reason, blank rows are logged in neither run,
\* and only a row that failed in the first run can be created; so with no
\* error in the first run the second run creates nothing.
C8_SecondRunDuplicates ==
    \A p \in Procs : SecondRunDone(p) =>
        LET first == doc[p].item_creation_log
            second == logs[p]
        IN /\ \A r \in 2..Len(rows_of(p)) :
                 /\ KindAt(first, r) \in {"created", "duplicate"}
                       => KindAt(second, r) = "duplicate"
                 /\ KindAt(first, r) \in {"skipped (missing item code)",
                                          "skipped (missing item group)", "none"}
                       => KindAt(second, r) = KindAt(first, r)
                 /\ KindAt(first, r) = "none" <=> ~any(rows_of(p)[r])
                 /\ KindAt(second, r) = "created"
                       => KindAt(first, r) \in {"failed", "failed (item group)"}
           /\ first[1].kind = "summary"
           /\ first[1].counts[4] = 0 =>
                 /\ created[p] = 0
                 /\ duplicates[p] = first[1].counts[1] + first[1].counts[2]

\* A row created by the first run is a duplicate for the second.
C8_Witness ==
    \E p \in Procs :
        /\ SecondRunDone(p)
        /\ \E r \in 2..Len(rows_of(p)) :
              /\ KindAt(doc[p].item_creation_log, r) = "created"
              /\ KindAt(logs[p], r) = "duplicate"

\* The file of C9: a header row, a root at level 0, two children at level 1
\* and a grandchild at level 2, in this order; every item is in the catalog
\* and no append has failed.
C9_Case(p) ==
    /\ pc[p] = "done"
    /\ Len(rows_of(p)) = 5
    /\ Len(nodes[p]) = 4
    /\ Level(p, 1) = 0 /\ Level(p, 2) = 1 /\ Level(p, 3) = 1 /\ Level(p, 4) = 2
    /\ AllGood(p)

\* C9 as stated: four child rows and "Items: 4, Skipped: 0, Errors: 0".
C9_Original ==
    \A p \in Procs : C9_Case(p) =>
        /\ Len(Items(p)) = 4
        /\ doc[p].bom_creation_log[1].counts = <<4, 0, 0>>

\* C9 amended: the file gives a tree with exactly 3 rows under the root; the
\* two children name the root as parent (empty parent_row_no), the grandchild
\* names the row number of the second child, and the summary counts Items: 3,
\* Skipped: 0, Errors: 0.
C9_EndToEnd ==
    \A p \in Procs : C9_Case(p) =>
        /\ Len(Items(p)) = 3
        /\ \A n \in 1..3 : Items(p)[n].idx = n /\ Items(p)[n].item_code = nodes[p][n + 1].item_code
        /\ Items(p)[1].parent_row_no = <<>> /\ Items(p)[1].fg_item = nodes[p][1].item_code
        /\ Items(p)[2].parent_row_no = <<>> /\ Items(p)[2].fg_item = nodes[p][1].item_code
        /\ Items(p)[3].parent_row_no = <<Items(p)[2].idx>>
        /\ Items(p)[3].fg_item = nodes[p][3].item_code
        /\ doc[p].bom_creation_log =
               <<summary_line(bom_creator[p].name, <<3, 0, 0>>)>>
        /\ doc[p].bom_parent_item = bom_creator[p].name
        /\ bom_creator[p].name \in bomDB

C9_Witness == \E p \in Procs : C9_Case(p) /\ Len(Items(p)) = 3

\* C10: a handler that aborts has written nothing.  The step that aborts is
\* taken before the row loop, with no log line, counter or child row, and
\* every step a handler takes up to there leaves the item catalog, the item
\* groups, the BOM Creators and the request records as they were.
BeforeRows == {"bom_start", "bom_root", "items_start"}
Aborted == {"bom_aborted", "items_aborted"}

C10_AbortWritesNothing ==
    [][\A p \in Procs :
          /\ (pc'[p] \in Aborted /\ pc[p] \notin Aborted) =>
                /\ pc[p] \in BeforeRows
                /\ logs[p] = <<>> /\ Items(p) = <<>>
                /\ created[p] = 0 /\ duplicates[p] = 0
                /\ skipped[p] = 0 /\ errors[p] = 0
          /\ (pc[p] \in BeforeRows /\ pc'[p] # pc[p]) =>
                UNCHANGED <<itemDB, item_uom, groupDB, bomDB, doc>>]_vars

\* A BOM import aborted after parsing its nodes, for want of a currency.
C10_Witness ==
    \E p \in Procs :
        /\ pc[p] = "bom_aborted"
        /\ nodes[p] # <<>>
        /\ company_of(defaults) # "" /\ defaults.currency = ""

\* The quantity cell and the unit cell of file row row_idx, as the parser
\* reads them.
QtyCell(p, row_idx) ==
    get(extract_row_data(rows_of(p)[row_idx], header_map_of(p)), "qty")
UomCell(p, row_idx) ==
    Strip(cstr(get(extract_row_data(rows_of(p)[row_idx], header_map_of(p)), "stock_uom")))

\* The number a quantity cell stands for: 0 when it stands for none.
SpelledNumber(cell) ==
    IF cell \in {"5", NumCell(5), "5 pcs", "5 PCS", "5 Ea", "5 box", "5 pcs box"} THEN 5
    ELSE IF cell \in {"-3", NumCell(0 - 3)} THEN 0 - 3
    ELSE 0
PositiveOrOne(n) == IF n > 0 THEN n ELSE 1

\* C12: for every quantity cell (absent, empty, zero, negative, not a number,
\* a number, a number followed by a unit word) parse_qty_and_uom and
\* normalize_qty give the number when it is greater than 0 and 1 otherwise, so
\* the qty of the root and the qty and stock_qty of every appended row are
\* greater than 0.
C12_PositiveQty ==
    \A p \in Procs : InTree(p) =>
        /\ \A k \in 1..Len(nodes[p]) :
               LET cell == QtyCell(p, nodes[p][k].row_idx)
               IN /\ parse_qty_and_uom(cell).qty = PositiveOrOne(SpelledNumber(cell))
                  /\ nodes[p][k].qty = PositiveOrOne(SpelledNumber(cell))
                  /\ normalize_qty(nodes[p][k].qty) = PositiveOrOne(SpelledNumber(cell))
        /\ bom_creator[p].qty > 0
        /\ bom_creator[p].qty = PositiveOrOne(SpelledNumber(QtyCell(p, nodes[p][1].row_idx)))
        /\ \A n \in 1..Len(Items(p)) :
               /\ Items(p)[n].qty > 0
               /\ Items(p)[n].stock_qty > 0
               /\ Items(p)[n].qty = PositiveOrOne(SpelledNumber(QtyCell(p, Items(p)[n].row_idx)))
               /\ Items(p)[n].stock_qty = Items(p)[n].qty

\* A finished tree whose root has a negative quantity cell and whose one row
\* has a quantity with a unit word.
C12_Witness ==
    \E p \in Procs :
        /\ pc[p] = "done"
        /\ QtyCell(p, nodes[p][1].row_idx) = "-3"
        /\ bom_creator[p].qty = 1
        /\ Len(Items(p)) = 1
        /\ QtyCell(p, Items(p)[1].row_idx) = "5 pcs"
        /\ Items(p)[1].qty = 5


\* C13: whenever the quantity part of a cell gives no positive number,
\* parse_qty_and_uom returns quantity 1 together with the unit "", also when
\* the cell has a second word ("0 pcs", "abc pcs").
C13_FallbackUnitEmpty ==
    \A p \in Procs : InTree(p) =>
        \A k \in 1..Len(nodes[p]) :
            LET cell == QtyCell(p, nodes[p][k].row_idx)
            IN SpelledNumber(cell) <= 0 =>
                   parse_qty_and_uom(cell) = [qty |-> 1, uom |-> ""]


\* The unit word of a quantity cell: its second word, "" when it has none.
UnitHint(cell) ==
    CASE cell \in {"5 pcs", "0 pcs", "abc pcs", "5 pcs box"} -> "pcs"
      [] cell = "5 PCS" -> "PCS"
      [] cell = "5 Ea" -> "Ea"
      [] cell = "5 box" -> "box"
      [] OTHER -> ""
Recognised(hint) == hint \in {"pcs", "PCS", "Ea"}

\* The unit a BOM row or the root gets from the cells of file row row_idx
\* and the catalog entry of its item.
ResolvedUom(p, row_idx, item_code) ==
    IF UomCell(p, row_idx) # "" THEN UomCell(p, row_idx)
    ELSE IF Recognised(UnitHint(QtyCell(p, row_idx))) THEN "Nos"
    ELSE item_uom[item_code]

\* C17: the unit of a BOM row is the row's own stock_uom cell when that is not
\* empty; otherwise "Nos" when the unit word of the quantity cell is one of
\* each/ea/nos/no/pcs/pc in any letter case; otherwise (no unit word, or one
\* that is not recognised) the stock unit of the item in the catalog.  The
\* root follows the same rule.
C17_UomResolution ==
    \A p \in Procs : InTree(p) =>
        /\ bom_creator[p].uom =
               ResolvedUom(p, nodes[p][1].row_idx, nodes[p][1].item_code)
        /\ \A n \in 1..Len(Items(p)) :
               /\ Items(p)[n].uom =
                      ResolvedUom(p, Items(p)[n].row_idx, Items(p)[n].item_code)
               /\ Items(p)[n].stock_uom = Items(p)[n].uom

\* A finished tree whose root takes "Nos" from an upper-case unit word and
\* whose one row, with a unit word that is not recognised and no unit cell,
\* takes the unit of the catalog.
C17_Witness ==
    \E p \in Procs :
        /\ pc[p] = "done"
        /\ QtyCell(p, nodes[p][1].row_idx) = "5 PCS"
        /\ UomCell(p, nodes[p][1].row_idx) = ""
        /\ bom_creator[p].uom = "Nos"
        /\ Len(Items(p)) = 1
        /\ QtyCell(p, Items(p)[1].row_idx) = "5 box"
        /\ UomCell(p, Items(p)[1].row_idx) = ""
        /\ Items(p)[1].uom = "Kg"


\* C15: in the tree the root alone holds the minimum level: no appended row
\* has a level equal to the root's level, also when several parsed rows have
\* the minimum level.
C15_RootUniqueMinimum ==
    \A p \in Procs : InTree(p) =>
        /\ \A k \in 1..Len(nodes[p]) : Level(p, 1) <= Level(p, k)
        /\ \A n \in 1..Len(Items(p)) : Level(p, NodeOfRow(p, n)) > Level(p, 1)
        /\ \A k \in Processed(p) : Level(p, k) = Level(p, 1) => ~IsCreated(p, k)

\* A finished tree with a row, whose file has three nodes of the minimum level.
C15_Witness ==
    \E p \in Procs :
        /\ pc[p] = "done"
        /\ Len(Items(p)) >= 1
        /\ Cardinality({k \in 1..Len(nodes[p]) : Level(p, k) = Level(p, 1)}) >= 3


\* C16: for every file and every pattern of missing items and failed appends,
\* the parent_row_no of an appended row is empty exactly when its parent is the
\* root; otherwise it is the row number (idx) of exactly one row, appended
\* earlier, whose item_code is the row's fg_item.  No row names itself or a
\* later row, and every row has exactly one parent.
C16_ParentRowIntegrity ==
    \A p \in Procs : InTree(p) =>
        \A n \in 1..Len(Items(p)) :
            LET row == Items(p)[n]
                k == NodeOfRow(p, n)
                named == {m \in 1..Len(Items(p)) : <<Items(p)[m].idx>> = row.parent_row_no}
            IN /\ row.idx = n
               /\ HasStackParent(p, k)
               /\ (row.parent_row_no = <<>>) <=> (StackParent(p, k) = 1)
               /\ row.parent_row_no = <<>> =>
                      /\ named = {}
                      /\ row.fg_item = nodes[p][1].item_code
               /\ row.parent_row_no # <<>> =>
                      /\ Cardinality(named) = 1
                      /\ \A m \in named :
                             /\ m < n
                             /\ Items(p)[m].item_code = row.fg_item
                             /\ NodeOfRow(p, m) = StackParent(p, k)

\* A finished tree with a child of the root, a grandchild under it, and a
\* dropped node.
C16_Witness ==
    \E p \in Procs :
        /\ pc[p] = "done"
        /\ \E n, m \in 1..Len(Items(p)) :
               /\ Items(p)[n].parent_row_no = <<>>
               /\ Items(p)[m].parent_row_no = <<Items(p)[n].idx>>
        /\ \E k \in Processed(p) : Dropped(p, k)
        /\ errors[p] + skipped[p] = 1


\* The lines of a saved log after its first line are row lines, in file order.
RowLinesInOrder(log) ==
    /\ \A n \in 2..Len(log) : log[n].kind # "summary"
    /\ \A n, m \in 2..Len(log) : n < m => log[n].row_idx < log[m].row_idx
LoggedRows(log) == {log[n].row_idx : n \in 2..Len(log)}

\* C18: the log saved on the request record starts with the summary of the
\* counters, followed in file order by one line for each affected row.  After
\* import_bom_creator the lines after the summary number skipped + errors;
\* after import_items they number created + duplicates + skipped + errors,
\* which is the number of data rows that are not empty.
C18_LogShape ==
    \A p \in Procs :
        /\ pc[p] = "done" =>
              LET log == doc[p].bom_creation_log
              IN /\ Len(log) >= 1
                 /\ log[1] = summary_line(bom_creator[p].name,
                                          <<created[p], skipped[p], errors[p]>>)
                 /\ RowLinesInOrder(log)
                 /\ Len(log) - 1 = skipped[p] + errors[p]
                 /\ LoggedRows(log) =
                        {nodes[p][k].row_idx : k \in {j \in 2..Len(nodes[p]) : ~IsCreated(p, j)}}
                 /\ created[p] = Len(Items(p))
        /\ pc[p] = "items_done" =>
              LET log == doc[p].item_creation_log
              IN /\ Len(log) >= 1
                 /\ log[1] = summary_line("", <<created[p], duplicates[p],
                                                skipped[p], errors[p]>>)
                 /\ RowLinesInOrder(log)
                 /\ Len(log) - 1 = created[p] + duplicates[p] + skipped[p] + errors[p]
                 /\ LoggedRows(log) = {r \in 2..Len(rows_of(p)) : any(rows_of(p)[r])}
                 /\ Len(log) - 1 = Cardinality({r \in 2..Len(rows_of(p)) : any(rows_of(p)[r])})

\* A finished BOM import with one row appended, one node skipped and one
\* append that failed: a summary and two row lines.
C18_Witness ==
    \E p \in Procs :
        /\ pc[p] = "done"
        /\ created[p] = 1 /\ skipped[p] = 1 /\ errors[p] = 1
        /\ Len(doc[p].bom_creation_log) = 3
        /\ doc[p].bom_creation_log[1].kind = "summary"


\* Some node after the root, up to node k, has the root's level.
RootLevelSeen(p, k) == \E j \in 2..k : Level(p, j) = Level(p, 1)

\* C19: once the stack of import_bom_creator is empty it stays empty for the
\* rest of the run.  The stack is empty exactly when a node after the root had
\* the root's level; that node and every node after it, whatever its level and
\* whether or not its item exists, is skipped with "no parent found", and no
\* row is appended any more.
C19_EmptyStackStays ==
    /\ [](\A p \in Procs : InTree(p) =>
            /\ (stack[p] = <<>>) <=> RootLevelSeen(p, i[p] - 1)
            /\ \A k \in Processed(p) :
                   RootLevelSeen(p, k) =>
                       /\ Logged(p, k, "no parent found")
                       /\ ~IsCreated(p, k))
    /\ [][\A p \in Procs : (InTree(p) /\ stack[p] = <<>>) =>
            /\ stack'[p] = <<>>
            /\ bom_creator'[p] = bom_creator[p]
            /\ created'[p] = created[p]
            /\ (i'[p] # i[p]) =>
                   /\ i'[p] = i[p] + 1
                   /\ skipped'[p] = skipped[p] + 1
                   /\ logs'[p] = Append(logs[p],
                                        log_line("no parent found", nodes[p][i[p]]))]_vars

\* A finished run in which a row was appended, then a node of the root's level
\* emptied the stack, and a deeper node whose item exists came after it.
C19_Witness ==
    \E p \in Procs :
        /\ pc[p] = "done"
        /\ stack[p] = <<>>
        /\ created[p] >= 1
        /\ \E k \in 3..(Len(nodes[p]) - 1) :
               /\ Level(p, k) = Level(p, 1)
               /\ Level(p, k + 1) > Level(p, 1)
               /\ nodes[p][k + 1].item_code \in itemDB
               /\ Logged(p, k + 1, "no parent found")


\* C20: a node that is skipped for a missing item, or whose append fails,
\* still pops every frame of level >= its own before it is dropped.  So for
\* every appended row, every node between its parent and itself in file order
\* (created, skipped or failed) is strictly deeper than the parent: a
\* descendant of a dropped node goes under the dropped node's own would-be
\* parent, never under an earlier sibling of the dropped node or one of that
\* sibling's descendants.
C20_DroppedRowsPop ==
    \A p \in Procs : InTree(p) =>
        /\ \A k \in Processed(p) :
               (k = i[p] - 1 /\ Dropped(p, k)) =>
                   \A f \in 1..Len(stack[p]) : stack[p][f].level < Level(p, k)
        /\ \A n \in 1..Len(Items(p)) :
               LET k == NodeOfRow(p, n)
                   j == ParentNode(p, n)
               IN /\ j < k
                  /\ \A m \in (j + 1)..(k - 1) : Level(p, m) > Level(p, j)
                  /\ (NearestSmaller(p, k) # j) =>
                         /\ Dropped(p, NearestSmaller(p, k))
                         /\ HasStackParent(p, NearestSmaller(p, k))
                  /\ Dropped(p, NearestSmaller(p, k)) =>
                         StackParent(p, NearestSmaller(p, k)) = j

\* A finished tree where a node was appended under the root, its sibling
\* failed on append, and a deeper node after the failed one went under the
\* root.
C20_Witness ==
    \E p \in Procs :
        /\ pc[p] = "done"
        /\ \E a, d, k \in Processed(p) :
               /\ a < d /\ d < k
               /\ IsCreated(p, a) /\ Level(p, a) = Level(p, d)
               /\ Logged(p, d, "failed")
               /\ Level(p, d) < Level(p, k)
               /\ IsCreated(p, k)
               /\ ParentNode(p, RowOfNode(p, k)) = 1


\* The outcomes of the nodes of request p counted so far.
Outcomes(p) == created[p] + skipped[p] + errors[p]
AfterChecks == {"name_base", "name_loop", "bom_loop"}

\* C11: no bad row ends import_bom_creator.  Once the abort checks have
\* passed, every node after the root is handled once, in file order, with
\* exactly one outcome (created, skipped or error); at the end created +
\* skipped + errors is the number of nodes after the root, and the run gets to
\* the save and submit step however many rows were skipped or failed.
C11_EveryNodeOneOutcome ==
    /\ [][\A p \in Procs : (pc[p] = "bom_loop" /\ i'[p] # i[p]) =>
            /\ i[p] <= Len(nodes[p])
            /\ i'[p] = i[p] + 1
            /\ pc'[p] = "bom_loop"
            /\ nodes'[p] = nodes[p]
            /\ created'[p] >= created[p]
            /\ skipped'[p] >= skipped[p]
            /\ errors'[p] >= errors[p]
            /\ created'[p] + skipped'[p] + errors'[p] = Outcomes(p) + 1
            /\ (created'[p] = created[p] + 1) <=>
                   /\ Len(bom_creator'[p].items) = Len(Items(p)) + 1
                   /\ bom_creator'[p].items[Len(Items(p)) + 1].row_idx = nodes[p][i[p]].row_idx
                   /\ logs'[p] = logs[p]
            /\ (created'[p] = created[p]) <=>
                   /\ bom_creator'[p] = bom_creator[p]
                   /\ Len(logs'[p]) = Len(logs[p]) + 1
                   /\ logs'[p][Len(logs[p]) + 1].row_idx = nodes[p][i[p]].row_idx]_vars
    /\ [](\A p \in Procs :
            /\ pc[p] = "bom_loop" => Outcomes(p) = i[p] - 2
            /\ pc[p] = "done" =>
                   /\ Outcomes(p) = Len(nodes[p]) - 1
                   /\ i[p] = Len(nodes[p]) + 1
                   /\ bom_creator[p].name \in bomDB)
    /\ \A p \in Procs : (pc[p] \in AfterChecks) ~> (pc[p] = "done")

\* A finished run in which both nodes after the root failed on append.
C11_Witness ==
    \E p \in Procs :
        /\ pc[p] = "done"
        /\ Len(nodes[p]) = 3
        /\ errors[p] = 2
        /\ created[p] = 0
        /\ bom_creator[p].name \in bomDB


\* The existence checks get_unique_bom_creator_name has made when request p is
\* about to check the candidate of index[p]: the base name and the candidates
\* 1 .. index[p] - 1, all of them found in the store.
Checked(p) ==
    {base_name_of(p)} \cup {candidate_name(base_name_of(p), k) : k \in 1..(index[p] - 1)}

\* C14: the naming resolver returns for every finite set of stored BOM Creator
\* names, after at most (number of stored names + 1) existence checks.
C14_NamingTerminates ==
    /\ [](\A p \in Procs : pc[p] = "name_loop" =>
            /\ index[p] >= 1
            /\ Checked(p) \subseteq bomDB
            /\ Cardinality(Checked(p)) = index[p]
            /\ index[p] + 1 <= Cardinality(bomDB) + 1)
    /\ [][\A p \in Procs :
            /\ (pc[p] = "name_base" /\ pc'[p] = "bom_loop") =>
                   bom_creator'[p].name = base_name_of(p)
            /\ (pc[p] = "name_loop" /\ pc'[p] = "bom_loop") =>
                   bom_creator'[p].name = candidate_name(base_name_of(p), index[p])
            /\ (pc[p] = "name_loop" /\ index'[p] # index[p]) =>
                   index'[p] = index[p] + 1]_vars
    /\ \A p \in Procs : (pc[p] \in {"name_base", "name_loop"}) ~> (pc[p] = "bom_loop")

\* The resolver returns after its last possible check: every stored name is
\* the base name or one of its revisions, and the name found is the next one.
C14_Witness ==
    \E p \in Procs :
        /\ pc[p] = "name_loop"
        /\ Cardinality(bomDB) >= 2
        /\ Checked(p) = bomDB
        /\ candidate_name(base_name_of(p), index[p]) \notin bomDB

====
